---------------------------- MODULE Spec2Model ----------------------------
(***************************************************************************)
(* Model of diarize_transcribe.ipynb: the notebook's code cells run in     *)
(* order by a single kernel, and the combine cell's nested loops that give *)
(* every Whisper segment the speaker of the pyannote turn it overlaps the  *)
(* most.                                                                   *)
(*                                                                         *)
(* Times are integers counting 1/32 s.  Such values and their differences  *)
(* are exact in binary floating point, so the integer arithmetic below is  *)
(* the arithmetic the Python floats perform on them.                       *)
(***************************************************************************)
EXTENDS Integers, Sequences, FiniteSets, TLC

\* ------------------------------------------------------------------ bounds
\* Largest time stamp (in 1/32 s) of a segment or a turn.
MaxTime == 2
\* Largest number of segments in result['segments'].
MaxSegs == 2
\* Largest number of turns in diarization_list.
MaxTurns == 2

\* ---------------------------------------------------------- Python values
\* Python's None where a string is expected (os.getenv, current_speaker).
None == "<None>"
\* What HF_TOKEN can be in os.environ or in the .env file: unset, empty, set.
EnvValues == {None, "", "hf_token"}
\* Speaker labels pyannote yields.
Speakers == {"SPEAKER_00", "SPEAKER_01"}
\* Segment texts, as sequences of characters (Whisper's start with a space).
Texts == {<<" ", "a">>, <<"b", " ">>}

Times == 0..MaxTime

\* A (turn, _, speaker) triple of diarization.itertracks(yield_label=True);
\* a pyannote track's segment is never empty.
Turns == {t \in [start : Times, end : Times, speaker : Speakers] : t.start < t.end}
\* An element of result['segments']; nothing in the notebook orders its
\* start and end.
Segments == [start : Times, end : Times, text : Texts]

SeqsUpTo(S, n) == UNION {[1..k -> S] : k \in 0..n}
TurnLists == SeqsUpTo(Turns, MaxTurns)
SegLists == SeqsUpTo(Segments, MaxSegs)

\* ------------------------------------------------------------- cell order
\* The notebook's code cells, top to bottom.
CellOrderSwapped ==
    <<"imports", "config", "load_models", "device", "transcribe", "diarize", "combine">>
CellOrder ==
    <<"imports", "config", "load_models", "device", "diarize", "transcribe", "combine">>

\* The cell an in-order run executes after cell c ("done" after the last).
NextCell(c) ==
    LET k == CHOOSE n \in 1..Len(CellOrder) : CellOrder[n] = c
    IN  IF k < Len(CellOrder) THEN CellOrder[k + 1] ELSE "done"

\* ---------------------------------------------------------- pure helpers
\* Python's max and min of two numbers.
Max(a, b) == IF a >= b THEN a ELSE b
Min(a, b) == IF a <= b THEN a ELSE b

\* load_dotenv() with override=False: a variable of the .env file is set
\* only when os.environ does not hold it yet.
LoadDotenv(env, file) == IF env = None THEN file ELSE env

\* `if not HF_TOKEN`: None and the empty string are falsy.
TokenMissingAbsentOnly(tok) == tok = None
TokenMissing(tok) == tok = None \/ tok = ""

\* overlap = max(0, min(segment_end, turn.end) - max(segment_start, turn.start))
Overlap(seg_start, seg_end, turn) ==
    LET overlap_start == Max(seg_start, turn.start)
        overlap_end == Min(seg_end, turn.end)
    IN  Max(0, overlap_end - overlap_start)

\* max_overlap = 0 at the start of every segment.
InitMaxOverlapBelow == 0 - 1
InitMaxOverlap == 0

\* `if overlap > max_overlap`
ExceedsAnyPositive(overlap, best) == overlap > 0
ExceedsOrTies(overlap, best) == overlap >= best /\ overlap > 0
ExceedsOrEquals(overlap, best) == overlap >= best
Exceeds(overlap, best) == overlap > best

\* f"{x:.1f}" of x = t/32 s, as a number of tenths: 10t/32 rounded to the
\* nearest integer, a tie to the even one.
Fmt1f(t) ==
    LET q == (10 * t) \div 32
        r == (10 * t) % 32
    IN  IF r > 16 \/ (r = 16 /\ q % 2 = 1) THEN q + 1 ELSE q

\* str.strip(): the text without its leading and trailing blanks.
RECURSIVE LStrip(_)
LStrip(s) == IF s # <<>> /\ Head(s) = " " THEN LStrip(Tail(s)) ELSE s
RECURSIVE RStrip(_)
RStrip(s) ==
    IF s # <<>> /\ s[Len(s)] = " " THEN RStrip(SubSeq(s, 1, Len(s) - 1)) ELSE s
Strip(s) == RStrip(LStrip(s))

\* str(current_speaker) inside the f-string: None prints as "None".
SpeakerStr(sp) == IF sp = None THEN "None" ELSE sp

\* line = f"[{start_time} -> {end_time}] {current_speaker}: {segment_text.strip()}\n"
FormatLine(seg_start, seg_end, sp, text) ==
    [start_time |-> Fmt1f(seg_start), end_time |-> Fmt1f(seg_end),
     speaker |-> SpeakerStr(sp), text |-> Strip(text)]

\* result['text']: the texts of the segments, concatenated.
RECURSIVE ConcatText(_)
ConcatText(segs) ==
    IF segs = <<>> THEN <<>> ELSE Head(segs).text \o ConcatText(Tail(segs))

\* ------------------------------------------------------------------ state
VARIABLES
    pc,               \* the cell to run next, or the position inside the combine cell
    error,            \* the exception that stopped the run, or None
    environ,          \* os.environ['HF_TOKEN'], None when unset
    defined,          \* the names bound in the kernel's namespace
    HF_TOKEN,
    whisper_model,    \* the name of the loaded Whisper model
    pipeline,         \* the loaded pyannote pipeline
    device,
    diarization_list,
    result,
    dir_exists,       \* whether the Transcription directory exists
    files,            \* file name -> content, for the files written
    segment_idx,      \* how many segments the outer for loop has taken
    turn_idx,         \* how many turns the inner for loop has taken
    segment_start, segment_end, segment_text,
    max_overlap, current_speaker,
    overlap_calls     \* history: the (segment, turn) pairs whose overlap was computed

vars == <<pc, error, environ, defined, HF_TOKEN, whisper_model, pipeline, device,
          diarization_list, result, dir_exists, files, segment_idx, turn_idx,
          segment_start, segment_end, segment_text, max_overlap, current_speaker,
          overlap_calls>>

loopVars == <<segment_idx, turn_idx, segment_start, segment_end, segment_text,
              max_overlap, current_speaker, overlap_calls>>
modelVars == <<whisper_model, pipeline, device>>
inputVars == <<diarization_list, result>>
diskVars == <<dir_exists, files>>

RawFile == "Transcription/transcription.txt"
SpeakersFile == "Transcription/transcription_with_speakers.txt"

NoPipeline == [name |-> None, token |-> None, device |-> None]
NoResult == [text |-> <<>>, segments |-> <<>>]

Init ==
    /\ pc = CellOrder[1]
    /\ error = None
    /\ environ \in EnvValues
    /\ defined = {}
    /\ HF_TOKEN = None
    /\ whisper_model = None
    /\ pipeline = NoPipeline
    /\ device = None
    /\ diarization_list = <<>>
    /\ result = NoResult
    /\ dir_exists = FALSE
    /\ files = <<>>
    /\ segment_idx = 0
    /\ turn_idx = 0
    /\ segment_start = 0
    /\ segment_end = 0
    /\ segment_text = <<>>
    /\ max_overlap = 0
    /\ current_speaker = None
    /\ overlap_calls = <<>>

\* ------------------------------------------------------------------ cells
\* Cell 1: the imports.
RunImports ==
    /\ pc = "imports"
    /\ pc' = NextCell("imports")
    /\ UNCHANGED <<error, environ, defined, HF_TOKEN, modelVars, inputVars,
                   diskVars, loopVars>>

\* Cell 2: load_dotenv(); HF_TOKEN = os.getenv('HF_TOKEN'); raise if falsy.
RunConfig ==
    /\ pc = "config"
    /\ \E file \in EnvValues :
          LET env == LoadDotenv(environ, file)
          IN  /\ environ' = env
              /\ HF_TOKEN' = env
              /\ defined' = defined \cup {"HF_TOKEN"}
              /\ IF TokenMissing(env)
                 THEN error' = "ValueError" /\ pc' = "error"
                 ELSE error' = error /\ pc' = NextCell("config")
    /\ UNCHANGED <<modelVars, inputVars, diskVars, loopVars>>

\* Cell 3: whisper.load_model("large-v3"); Pipeline.from_pretrained(...).
RunLoadModels ==
    /\ pc = "load_models"
    /\ whisper_model' = "large-v3"
    /\ pipeline' = [name |-> "pyannote/speaker-diarization-3.1",
                    token |-> HF_TOKEN, device |-> "cpu"]
    /\ defined' = defined \cup {"whisper_model", "pipeline"}
    /\ pc' = NextCell("load_models")
    /\ UNCHANGED <<error, environ, HF_TOKEN, device, inputVars, diskVars, loopVars>>

\* Cell 4: pick cuda when available, else cpu; pipeline.to(device).
RunDevice ==
    /\ pc = "device"
    /\ \E cuda_available \in BOOLEAN :
          /\ device' = IF cuda_available THEN "cuda" ELSE "cpu"
          /\ pipeline' = [pipeline EXCEPT !.device = device']
    /\ defined' = defined \cup {"device"}
    /\ pc' = NextCell("device")
    /\ UNCHANGED <<error, environ, HF_TOKEN, whisper_model, inputVars, diskVars,
                   loopVars>>

\* Cell 5: diarization = pipeline(AUDIO_FILE); the list of its tracks.
RunDiarize ==
    /\ pc = "diarize"
    /\ \E turns \in TurnLists : diarization_list' = turns
    /\ defined' = defined \cup {"AUDIO_FILE", "audio", "diarization", "diarization_list"}
    /\ pc' = NextCell("diarize")
    /\ UNCHANGED <<error, environ, HF_TOKEN, modelVars, result, diskVars, loopVars>>

\* Cell 6: makedirs, whisper_model.transcribe, write result['text'].
RunTranscribe ==
    /\ pc = "transcribe"
    /\ dir_exists' = TRUE
    /\ \E segs \in SegLists : result' = [text |-> ConcatText(segs), segments |-> segs]
    /\ files' = [n \in (DOMAIN files) \cup {RawFile} |->
                    IF n = RawFile THEN result'.text ELSE files[n]]
    /\ defined' = defined \cup {"result", "output_path"}
    /\ pc' = NextCell("transcribe")
    /\ UNCHANGED <<error, environ, HF_TOKEN, modelVars, diarization_list, loopVars>>

\* Cell 7, up to the loop: open(output_path, 'w') creates or empties the file.
CombineOpen ==
    /\ pc = "combine"
    /\ files' = [n \in (DOMAIN files) \cup {SpeakersFile} |->
                    IF n = SpeakersFile THEN <<>> ELSE files[n]]
    /\ segment_idx' = 0
    /\ pc' = "for_segment"
    /\ defined' = defined \cup {"output_path"}
    /\ UNCHANGED <<error, environ, HF_TOKEN, modelVars, inputVars,
                   dir_exists, turn_idx, segment_start, segment_end, segment_text,
                   max_overlap, current_speaker, overlap_calls>>

\* `for segment in result['segments']` takes the next segment; the body's
\* first lines read it and reset max_overlap and current_speaker.
NextSegmentNoReset ==
    /\ pc = "for_segment"
    /\ segment_idx < Len(result.segments)
    /\ LET segment == result.segments[segment_idx + 1]
       IN  /\ segment_start' = segment.start
           /\ segment_end' = segment.end
           /\ segment_text' = segment.text
    /\ segment_idx' = segment_idx + 1
    /\ turn_idx' = 0
    /\ pc' = "for_turn"
    /\ UNCHANGED <<error, environ, defined, HF_TOKEN, modelVars, inputVars,
                   diskVars, overlap_calls, max_overlap, current_speaker>>
NextSegment ==
    /\ pc = "for_segment"
    /\ segment_idx < Len(result.segments)
    /\ LET segment == result.segments[segment_idx + 1]
       IN  /\ segment_start' = segment.start
           /\ segment_end' = segment.end
           /\ segment_text' = segment.text
    /\ max_overlap' = InitMaxOverlap
    /\ current_speaker' = None
    /\ segment_idx' = segment_idx + 1
    /\ turn_idx' = 0
    /\ pc' = "for_turn"
    /\ UNCHANGED <<error, environ, defined, HF_TOKEN, modelVars, inputVars,
                   diskVars, overlap_calls>>

\* `for turn, _, speaker in diarization_list` takes the next turn, computes
\* its overlap and keeps it when it exceeds the best so far.
NextTurnBreak ==
    /\ pc = "for_turn"
    /\ turn_idx < Len(diarization_list)
    /\ LET turn == diarization_list[turn_idx + 1]
           overlap == Overlap(segment_start, segment_end, turn)
       IN  /\ IF Exceeds(overlap, max_overlap)
              THEN /\ max_overlap' = overlap
                   /\ current_speaker' = turn.speaker
                   /\ turn_idx' = Len(diarization_list)
              ELSE /\ UNCHANGED <<max_overlap, current_speaker>>
                   /\ turn_idx' = turn_idx + 1
    /\ overlap_calls' = Append(overlap_calls, <<segment_idx, turn_idx + 1>>)
    /\ UNCHANGED <<pc, error, environ, defined, HF_TOKEN, modelVars, inputVars,
                   diskVars, segment_idx, segment_start, segment_end, segment_text>>
NextTurn ==
    /\ pc = "for_turn"
    /\ turn_idx < Len(diarization_list)
    /\ LET turn == diarization_list[turn_idx + 1]
           overlap == Overlap(segment_start, segment_end, turn)
       IN  IF Exceeds(overlap, max_overlap)
           THEN /\ max_overlap' = overlap
                /\ current_speaker' = turn.speaker
           ELSE UNCHANGED <<max_overlap, current_speaker>>
    /\ overlap_calls' = Append(overlap_calls, <<segment_idx, turn_idx + 1>>)
    /\ turn_idx' = turn_idx + 1
    /\ UNCHANGED <<pc, error, environ, defined, HF_TOKEN, modelVars, inputVars,
                   diskVars, segment_idx, segment_start, segment_end, segment_text>>

\* The inner loop is exhausted: format the line, print it and write it.
WriteLineSkipNone ==
    /\ pc = "for_turn"
    /\ turn_idx = Len(diarization_list)
    /\ files' = IF current_speaker = None
                THEN files
                ELSE [files EXCEPT ![SpeakersFile] =
                        Append(@, FormatLine(segment_start, segment_end,
                                             current_speaker, segment_text))]
    /\ pc' = "for_segment"
    /\ UNCHANGED <<error, environ, defined, HF_TOKEN, modelVars, inputVars,
                   dir_exists, loopVars>>
WriteLine ==
    /\ pc = "for_turn"
    /\ turn_idx = Len(diarization_list)
    /\ files' = [files EXCEPT ![SpeakersFile] =
                    Append(@, FormatLine(segment_start, segment_end,
                                         current_speaker, segment_text))]
    /\ pc' = "for_segment"
    /\ UNCHANGED <<error, environ, defined, HF_TOKEN, modelVars, inputVars,
                   dir_exists, loopVars>>

\* The outer loop is exhausted: the with block closes the file, the cell ends.
CombineDone ==
    /\ pc = "for_segment"
    /\ segment_idx = Len(result.segments)
    /\ pc' = NextCell("combine")
    /\ UNCHANGED <<error, environ, defined, HF_TOKEN, modelVars, inputVars,
                   diskVars, loopVars>>

Next ==
    \/ RunImports
    \/ RunConfig
    \/ RunLoadModels
    \/ RunDevice
    \/ RunDiarize
    \/ RunTranscribe
    \/ CombineOpen
    \/ NextSegment
    \/ NextTurn
    \/ WriteLine
    \/ CombineDone

Spec == Init /\ [][Next]_vars

\* The kernel runs every cell to its end: a step that can be taken is taken.
FairSpec == Spec /\ WF_vars(Next)


\* ------------------------------------------------- vocabulary of the claims
\* The lines written so far to transcription_with_speakers.txt.
Lines == IF SpeakersFile \in DOMAIN files THEN files[SpeakersFile] ELSE <<>>

TurnIdx == 1..Len(diarization_list)

\* The time two intervals share, spelled out case by case.
SharedTime(seg, turn) ==
    LET lo == IF seg.start > turn.start THEN seg.start ELSE turn.start
        hi == IF seg.end < turn.end THEN seg.end ELSE turn.end
    IN  IF hi > lo THEN hi - lo ELSE 0

\* The largest time segment seg shares with a turn of the list (0 for none).
MaxShared(seg) ==
    IF \E j \in TurnIdx : SharedTime(seg, diarization_list[j]) > 0
    THEN CHOOSE m \in 1..MaxTime :
            /\ \E j \in TurnIdx : SharedTime(seg, diarization_list[j]) = m
            /\ \A j \in TurnIdx : SharedTime(seg, diarization_list[j]) <= m
    ELSE 0

\* The turns that share the largest, positive time with seg.
BestTurns(seg) ==
    {j \in TurnIdx : /\ SharedTime(seg, diarization_list[j]) > 0
                     /\ SharedTime(seg, diarization_list[j]) = MaxShared(seg)}

\* Line k was written for segment k.
WrittenIdx == {k \in 1..Len(Lines) : k <= Len(result.segments)}

\* C1: whenever some turn overlaps a segment for a positive time, the speaker
\* written on the segment's line is the label of a turn whose overlap with
\* the segment is the maximum over all the turns.
C1_MaxOverlapSpeaker ==
    \A k \in WrittenIdx :
        LET seg == result.segments[k]
        IN  (\E j \in TurnIdx : SharedTime(seg, diarization_list[j]) > 0)
            => \E j \in TurnIdx :
                  /\ diarization_list[j].speaker = Lines[k].speaker
                  /\ SharedTime(seg, diarization_list[j]) = MaxShared(seg)

\* A line was written for a segment that two turns of different speakers
\* overlap, the later one for longer, and it carries the later turn's speaker.
C1_Witness ==
    /\ pc = "done"
    /\ \E k \in WrittenIdx :
          /\ Len(diarization_list) = 2
          /\ diarization_list[1].speaker # diarization_list[2].speaker
          /\ SharedTime(result.segments[k], diarization_list[1]) > 0
          /\ SharedTime(result.segments[k], diarization_list[2])
                > SharedTime(result.segments[k], diarization_list[1])
          /\ Lines[k].speaker = diarization_list[2].speaker

\* C2: the combine cell writes one line per segment, in the order of
\* result['segments']: the lines written so far are those of the segments
\* taken so far, line i carrying the formatted start and end and the stripped
\* text of segment i, and when the cell has finished there are as many lines
\* as segments, whatever the turns are.
C2_OneLinePerSegment ==
    /\ Len(Lines) <= Len(result.segments)
    /\ pc \in {"for_segment", "done"} /\ SpeakersFile \in DOMAIN files
          => Len(Lines) = segment_idx
    /\ pc = "for_turn" => Len(Lines) = segment_idx - 1
    /\ \A k \in WrittenIdx :
          /\ Lines[k].start_time = Fmt1f(result.segments[k].start)
          /\ Lines[k].end_time = Fmt1f(result.segments[k].end)
          /\ Lines[k].text = Strip(result.segments[k].text)
    /\ pc = "done" => Len(Lines) = Len(result.segments)

\* The cell has finished on two different segments, the first of which no
\* turn overlaps, and both lines are in the file in the segments' order.
C2_Witness ==
    /\ pc = "done"
    /\ Len(result.segments) = 2
    /\ Len(Lines) = 2
    /\ Len(diarization_list) > 0
    /\ result.segments[1].text # result.segments[2].text
    /\ Fmt1f(result.segments[1].start) # Fmt1f(result.segments[2].start)
    /\ Lines[1].speaker = "None"
    /\ Lines[2].speaker # "None"
    /\ Lines[1].text = Strip(result.segments[1].text)
    /\ Lines[2].text = Strip(result.segments[2].text)

\* The (segment, turn) pairs of ns segments and nt turns, segment by segment
\* and, within a segment, turn by turn.
PairsInOrder(ns, nt) ==
    [n \in 1..(ns * nt) |-> <<((n - 1) \div nt) + 1, ((n - 1) % nt) + 1>>]

IsPrefix(s, t) == Len(s) <= Len(t) /\ \A n \in 1..Len(s) : s[n] = t[n]

\* The overlap computations made so far are the first ones of the in-order
\* enumeration of the pairs, and all of them once the cell has finished.
SinglePass ==
    LET all == PairsInOrder(Len(result.segments), Len(diarization_list))
    IN  /\ IsPrefix(overlap_calls, all)
        /\ pc = "done" => overlap_calls = all

\* C3: the matching is single-pass and terminates: the overlap computations
\* are the (segment, turn) pairs in list order, each exactly once, so
\* |segments| x |turns| of them when the combine cell, once started, reaches
\* its end, which it always does.
C3_SinglePassTerminates ==
    /\ []SinglePass
    /\ (pc = "combine") ~> (pc = "done")

\* The cell has finished after four overlap computations, two per segment,
\* the second segment's after the first's.
C3_Witness ==
    /\ pc = "done"
    /\ Len(result.segments) = 2
    /\ Len(diarization_list) = 2
    /\ overlap_calls = <<<<1, 1>>, <<1, 2>>, <<2, 1>>, <<2, 2>>>>
    /\ Lines[1].speaker # "None"

\* The speaker a scan of the whole turn list gives a segment, started from
\* max_overlap = 0 and current_speaker = None.
RECURSIVE ScanFrom(_, _, _, _)
ScanFrom(seg, j, best, sp) ==
    IF j > Len(diarization_list)
    THEN sp
    ELSE LET ov == SharedTime(seg, diarization_list[j])
         IN  IF ov > best
             THEN ScanFrom(seg, j + 1, ov, diarization_list[j].speaker)
             ELSE ScanFrom(seg, j + 1, best, sp)

InCombine == pc \in {"for_segment", "for_turn"}

\* Each scan starts afresh, and each line's speaker is the one a scan of the
\* turn list alone gives the line's segment.
StatelessScan ==
    /\ pc = "for_turn" /\ turn_idx = 0
          => max_overlap = 0 /\ current_speaker = None
    /\ \A k \in WrittenIdx :
          Lines[k].speaker = SpeakerStr(ScanFrom(result.segments[k], 1, 0, None))

\* C4: the matching keeps no state beyond its two inputs: it never changes
\* result['segments'] or diarization_list, it resets max_overlap and
\* current_speaker at the start of every segment, and the speaker of a
\* segment depends only on the segment's start and end and on the turn list.
C4_NoStateBeyondInputs ==
    /\ []StatelessScan
    /\ [][InCombine => result' = result /\ diarization_list' = diarization_list]_vars

\* The second segment lies outside every turn and follows a segment that got
\* a speaker: its line says None, not the speaker left over from the first.
C4_Witness ==
    /\ pc = "done"
    /\ Len(result.segments) = 2
    /\ Len(Lines) = 2
    /\ Lines[1].speaker # "None"
    /\ Lines[2].speaker = "None"
    /\ result.segments[2].start < result.segments[2].end

C6_DefaultModelIsTurbo ==
    "whisper_model" \in defined => whisper_model = "large-v3-turbo"

\* C7: once the configuration cell has run, the run has stopped with
\* ValueError exactly when HF_TOKEN is absent from the environment or empty,
\* and then no model is loaded, the Transcription directory does not exist
\* and no file is written.
C7_MissingTokenStopsRun ==
    /\ "HF_TOKEN" \in defined =>
          /\ HF_TOKEN = environ
          /\ (environ = None \/ environ = "") <=> error = "ValueError"
    /\ error = "ValueError" <=> pc = "error"
    /\ error = "ValueError" =>
          /\ whisper_model = None
          /\ pipeline = NoPipeline
          /\ ~dir_exists
          /\ DOMAIN files = {}
          /\ defined = {"HF_TOKEN"}

\* The run stopped on an empty HF_TOKEN.
C7_Witness ==
    /\ error = "ValueError"
    /\ environ = ""
    /\ HF_TOKEN = ""

\* C8: when several turns share the maximum positive overlap with a segment,
\* the speaker written is that of the first of them in diarization_list.
C8_FirstOfTiedTurns ==
    \A k \in WrittenIdx :
        LET best == BestTurns(result.segments[k])
        IN  best # {} =>
              Lines[k].speaker =
                 diarization_list[CHOOSE j \in best : \A i \in best : j <= i].speaker

\* Two turns of different speakers tie for the maximum, and the line carries
\* the first one's speaker.
C8_Witness ==
    /\ pc = "done"
    /\ \E k \in WrittenIdx :
          /\ BestTurns(result.segments[k]) = {1, 2}
          /\ diarization_list[1].speaker # diarization_list[2].speaker
          /\ Lines[k].speaker = diarization_list[1].speaker

\* C9: a segment's line says None exactly when no turn overlaps the segment
\* for a positive time, and the line is written all the same.
C9_NoneIffNoOverlap ==
    /\ \A k \in WrittenIdx :
          Lines[k].speaker = "None"
             <=> \A j \in TurnIdx :
                    SharedTime(result.segments[k], diarization_list[j]) <= 0
    /\ pc = "done" => Len(Lines) = Len(result.segments)

\* A zero-duration segment strictly inside a turn was written with None.
C9_Witness ==
    /\ pc = "done"
    /\ \E k \in WrittenIdx :
          /\ result.segments[k].start = result.segments[k].end
          /\ \E j \in TurnIdx :
                /\ diarization_list[j].start < result.segments[k].start
                /\ result.segments[k].end < diarization_list[j].end
          /\ Lines[k].speaker = "None"

\* The turns the inner loop has examined for the current segment.
Examined == 1..turn_idx

CurrentSegment == [start |-> segment_start, end |-> segment_end]

\* During a scan max_overlap is the maximum of 0 and the overlaps examined,
\* and current_speaker is None exactly when it is 0, else the label of an
\* examined turn with that overlap.
MaxTracking ==
    pc = "for_turn" =>
       /\ max_overlap >= 0
       /\ \A j \in Examined : SharedTime(CurrentSegment, diarization_list[j]) <= max_overlap
       /\ \/ max_overlap = 0
          \/ \E j \in Examined : SharedTime(CurrentSegment, diarization_list[j]) = max_overlap
       /\ current_speaker = None <=> max_overlap = 0
       /\ current_speaker # None =>
             \E j \in Examined :
                /\ diarization_list[j].speaker = current_speaker
                /\ SharedTime(CurrentSegment, diarization_list[j]) = max_overlap

\* C10: the max-tracking invariant of the inner scan holds at every point of
\* it, and max_overlap never decreases while one segment is scanned.
C10_MaxTrackingInvariant ==
    /\ []MaxTracking
    /\ [][pc = "for_turn" /\ pc' = "for_turn" => max_overlap' >= max_overlap]_vars

\* In the middle of a scan: the first turn gave a speaker, and the second,
\* still to be examined, overlaps the segment for longer.
C10_Witness ==
    /\ pc = "for_turn"
    /\ turn_idx = 1
    /\ Len(diarization_list) = 2
    /\ max_overlap = 1
    /\ current_speaker = diarization_list[1].speaker
    /\ SharedTime(CurrentSegment, diarization_list[2]) > max_overlap

=============================================================================
